---- MODULE Spec2Model ----
(***************************************************************************)
(* WebActionCapture: the capture session (capture.py), its two bounded     *)
(* non-blocking sinks (save.py), the ffmpeg supervisor (video.py) and the  *)
(* frame reconciliation pass (parser_mac.py).                              *)
(***************************************************************************)
EXTENDS Integers, Sequences, FiniteSets, TLC

\* ------------------------------------------------------------------ bounds
\* queue.Queue(maxsize=10000) in save.py, scaled down for the model
QueueMaxsize == 2
\* the pieces of output ffmpeg writes to its log file in one session
MaxLogWrites == 2
\* the items put() places on the queue of the structured sink in FifoSpec
MaxPuts == 3

\* ------------------------------------------------------------- numbers
\* A non-negative decimal number hi*10^6 + lo + us*10^-6 kept in three limbs,
\* because 1e10 and epoch milliseconds do not fit a 32-bit integer.
Limb == 1000 * 1000

Num(hi, lo, us) == [hi |-> hi, lo |-> lo, us |-> us]

NumLess(a, b) ==
    \/ a.hi < b.hi
    \/ a.hi = b.hi /\ a.lo < b.lo
    \/ a.hi = b.hi /\ a.lo = b.lo /\ a.us < b.us

\* the literal 1e10 of `ts > 1e10`
MsEpochThreshold == Num(10000, 0, 0)

\* round(x, 0) of x = n/1000 for an integer n >= 0, ties to even (Python round)
RoundThousandth(n) ==
    LET d == n \div 1000
        r == n % 1000
    IN  IF r > 500 \/ (r = 500 /\ d % 2 = 1) THEN d + 1 ELSE d

\* round(ts / 1000.0, 6)
DivThousandRound6(a) ==
    LET us0 == (a.lo % 1000) * 1000 + RoundThousandth(a.us)
        lo0 == (a.hi % 1000) * 1000 + (a.lo \div 1000) + (us0 \div Limb)
    IN  Num((a.hi \div 1000) + (lo0 \div Limb), lo0 % Limb, us0 % Limb)

\* ------------------------------------------------- timestamps of a record
\* evt.get("ts"): a JSON number, a JSON string holding a number, or no number
TsNum(n) == [kind |-> "num", v |-> n]
TsStr(n) == [kind |-> "str", v |-> n]
TsAbsent == [kind |-> "absent", v |-> Num(0, 0, 0)]

Seconds == Num(1700, 0, 0)                  \* 1700000000
SecondsNorm == Num(1700, 0, 123000)         \* 1700000000.123
Millis == Num(1700000, 123, 0)              \* 1700000000123
MillisFrac == Num(1700000, 123, 456500)     \* 1700000000123.4565
AtThreshold == Num(10000, 0, 0)             \* 10000000000
OverThreshold == Num(10000, 1, 0)           \* 10000000001
Micros == Num(1700000000, 123456, 0)        \* 1700000000123456

\* ------------------------------------------------------------------ state
Sinks == {"pump", "jsonl"}

VARIABLES
    \* save.py: one entry per sink ("pump" is LogPump, "jsonl" is JsonlWriter)
    q,          \* self.q, the bounded queue
    stopEv,     \* self._stop
    tpc,        \* position of the consumer thread self.t in _run
    held,       \* the local `item` of _run
    stopPc,     \* position of the caller inside stop()
    dropped,    \* the sinks whose put() has dropped an item on queue.Full
    \* capture.py: Recorder
    spc,        \* position of the main thread in Recorder.start
    debug,      \* self.config.debug
    captured,   \* _emit_event has been called in this session
    err,        \* an exception is propagating out of the try block
    statusPut,  \* [RECORDER] status lines handed to pump.put
    shutdownLog,\* stop() calls made by the finally block, in order
    \* video.py: FFmpegFullScreenRecorder
    screenRec,  \* self.screen_rec is set
    system,     \* self.system
    proc,       \* self.proc: "none", or the state of the ffmpeg process
    fp,         \* self._stderr_fp: "none", "open", "closed"
    rpc,        \* position inside FFmpegFullScreenRecorder.stop
    startFailed,\* the recorder failed to start in this session
    qWritten,   \* stop() wrote b"q" to the process's stdin
    timedOut,   \* proc.wait(timeout) raised TimeoutExpired
    forced,     \* forced-termination calls that reached a live process
    artifact,   \* what os.path.exists/getsize found at self.out_path
    \* parser_mac.py: main
    mpc,        \* position in main()
    markers,    \* the values of the `start: <seconds>` markers of the encoder log
    prefer,     \* args.prefer
    wall_now,   \* time.time() sampled by host_seconds_to_epoch
    host_now,   \* host_time_seconds_now() sampled by host_seconds_to_epoch
    evLog,      \* the records of the input event log, in file order
    idx,        \* number of records of the input log read so far
    video_start_epoch, \* the anchor
    ts,         \* the local `ts` of the record being processed
    counter,    \* the sequence counter of the frame names
    last_rel,   \* the relative time of the last retained record
    outLog,     \* the records written to the augmented output log
    include_types,  \* args.include_types
    offset_ms,  \* args.offset_ms
    min_gap_ms, \* args.min_gap_ms
    host_start, \* the local `host_start` of main()
    out_jsonl,  \* args.out_jsonl
    out_exists, \* the output log exists on disk
    failed,     \* the passes of the loop in which extract_frame raised
    frames,     \* the frame images extract_frame has written
    \* capture.py: _on_console
    last_call,  \* what the last call of _on_console handed to the sinks
    \* video.py: the encoder log
    encLog,     \* the content of the file at self.log_path, in write order
    pybuf,      \* what self._stderr_fp holds in its buffer, not yet written
    \* capture.py: the redaction of long input values in _on_console
    redaction,  \* the type and value received last and the value forwarded
    \* capture.py: Recorder._wire
    page_ids,   \* self.page_ids
    console_subs,   \* per page, the pid held by each subscribed _on_console
    popup_subs, \* per page, the number of subscribed _on_popup
    stage,      \* per page, which of its discovery events have been dispatched
    emitted,    \* the page and the pids of the _emit_event calls of the last
                \* accepted notification
    \* save.py: JsonlWriter, the history of its input and of its file, kept
    \* by the steps of FifoSpec
    putLog,     \* the items JsonlWriter.put has placed on the queue, in order
    written     \* the lines the consumer thread has written, in order

sinkVars == <<q, stopEv, tpc, held, stopPc, dropped>>
sessVars == <<spc, debug, captured, err, statusPut, shutdownLog>>
recVars == <<screenRec, system, proc, fp, rpc, startFailed, qWritten, timedOut,
             forced, artifact>>
reconVars == <<mpc, markers, prefer, wall_now, host_now, evLog, idx,
               video_start_epoch, ts, counter, last_rel, outLog,
               include_types, offset_ms, min_gap_ms, host_start, out_jsonl,
               out_exists, failed, frames>>
logVars == <<encLog, pybuf>>
wireVars == <<page_ids, console_subs, popup_subs, stage, emitted>>
fifoVars == <<putLog, written>>
vars == <<sinkVars, sessVars, recVars, reconVars, last_call, logVars, redaction,
          wireVars, fifoVars>>

\* -------------------------------------------------------------- save.py
NoneItem == [k |-> "None"]      \* the sentinel None
NoItem == [k |-> "unset"]       \* `item` not bound

\* put_nowait on a queue that makes room: a full queue evicts its oldest item
\* for the new one
put_nowait_evicting(queue, item) ==
    IF Len(queue) < QueueMaxsize THEN Append(queue, item)
    ELSE Append(Tail(queue), item)

\* a queue that hands out the newest item first
put_nowait_lifo(queue, item) ==
    IF Len(queue) < QueueMaxsize THEN <<item>> \o queue ELSE queue

\* queue.Queue.put_nowait with the `except queue.Full: pass` of put()
put_nowait(queue, item) ==
    IF Len(queue) < QueueMaxsize THEN Append(queue, item) ELSE queue

\* put_nowait does not raise queue.Full
put_accepts(queue) == Len(queue) < QueueMaxsize

\* the items JsonlWriter.put has placed on the queue, after put(qs, s, item)
put_log(log, qs, s, item) ==
    IF s = "jsonl" /\ put_accepts(qs[s]) THEN Append(log, item) ELSE log

\* LogPump.put / JsonlWriter.put applied to sink s: the queues afterwards
put(qs, s, item) == [qs EXCEPT ![s] = put_nowait(@, item)]

\* the sinks that have dropped an item, after put(qs, s, item)
put_drops(d, qs, s) == IF put_accepts(qs[s]) THEN d ELSE d \cup {s}

\* start(): `self.t.start()`, for the sinks in ss
start(ss) == tpc' = [s \in Sinks |-> IF s \in ss THEN "check" ELSE tpc[s]]

\* _run: `while not self._stop.is_set()`
run_check(s) ==
    /\ tpc[s] = "check"
    /\ tpc' = [tpc EXCEPT ![s] = IF stopEv[s] THEN "done" ELSE "get"]
    /\ UNCHANGED <<q, stopEv, held, stopPc, dropped>>
    /\ UNCHANGED <<sessVars, recVars>>
    /\ UNCHANGED reconVars
    /\ UNCHANGED last_call
    /\ UNCHANGED logVars
    /\ UNCHANGED redaction
    /\ UNCHANGED wireVars
    /\ UNCHANGED fifoVars

\* _run: `item = self.q.get(timeout=0.25)`, `except queue.Empty: continue`,
\* `if item is None: break`
run_get(s) ==
    /\ tpc[s] = "get"
    /\ IF q[s] = <<>>
       THEN /\ tpc' = [tpc EXCEPT ![s] = "check"]
            /\ UNCHANGED <<q, held>>
       ELSE /\ q' = [q EXCEPT ![s] = Tail(@)]
            /\ IF Head(q[s]) = NoneItem
               THEN /\ tpc' = [tpc EXCEPT ![s] = "done"]
                    /\ UNCHANGED held
               ELSE /\ tpc' = [tpc EXCEPT ![s] = "emit"]
                    /\ held' = [held EXCEPT ![s] = Head(q[s])]
    /\ UNCHANGED <<stopEv, stopPc, dropped>>
    /\ UNCHANGED <<sessVars, recVars>>
    /\ UNCHANGED reconVars
    /\ UNCHANGED last_call
    /\ UNCHANGED logVars
    /\ UNCHANGED redaction
    /\ UNCHANGED wireVars
    /\ UNCHANGED fifoVars

\* LogPump._run: `print(item, flush=True)`; an exception leaves _run
LogPump_emit ==
    /\ tpc["pump"] = "emit"
    /\ \E ok \in BOOLEAN :
        tpc' = [tpc EXCEPT !["pump"] = IF ok THEN "check" ELSE "crashed"]
    /\ held' = [held EXCEPT !["pump"] = NoItem]
    /\ UNCHANGED <<q, stopEv, stopPc, dropped>>
    /\ UNCHANGED <<sessVars, recVars>>
    /\ UNCHANGED reconVars
    /\ UNCHANGED last_call
    /\ UNCHANGED logVars
    /\ UNCHANGED redaction
    /\ UNCHANGED wireVars
    /\ UNCHANGED fifoVars

\* JsonlWriter._run: json.dumps, f.write, f.flush, os.fsync inside
\* `try: ... except Exception: pass`; whether they raise or not, the loop goes on
JsonlWriter_emit ==
    /\ tpc["jsonl"] = "emit"
    /\ \E ok \in BOOLEAN :
        tpc' = [tpc EXCEPT !["jsonl"] = "check"]
    /\ held' = [held EXCEPT !["jsonl"] = NoItem]
    /\ UNCHANGED fifoVars
    /\ UNCHANGED <<q, stopEv, stopPc, dropped>>
    /\ UNCHANGED <<sessVars, recVars>>
    /\ UNCHANGED reconVars
    /\ UNCHANGED last_call
    /\ UNCHANGED logVars
    /\ UNCHANGED redaction
    /\ UNCHANGED wireVars

\* stop() without `self._stop.set()`: it relies on the sentinel alone
stop_set_sentinel_only(s) ==
    /\ stopPc[s] = "set"
    /\ stopPc' = [stopPc EXCEPT ![s] = "sentinel"]
    /\ UNCHANGED <<q, stopEv, tpc, held, dropped>>
    /\ UNCHANGED <<sessVars, recVars>>
    /\ UNCHANGED reconVars
    /\ UNCHANGED last_call
    /\ UNCHANGED logVars
    /\ UNCHANGED redaction
    /\ UNCHANGED wireVars
    /\ UNCHANGED fifoVars

\* stop(): `self._stop.set()`
stop_set(s) ==
    /\ stopPc[s] = "set"
    /\ stopEv' = [stopEv EXCEPT ![s] = TRUE]
    /\ stopPc' = [stopPc EXCEPT ![s] = "sentinel"]
    /\ UNCHANGED <<q, tpc, held, dropped>>
    /\ UNCHANGED <<sessVars, recVars>>
    /\ UNCHANGED reconVars
    /\ UNCHANGED last_call
    /\ UNCHANGED logVars
    /\ UNCHANGED redaction
    /\ UNCHANGED wireVars
    /\ UNCHANGED fifoVars

\* stop(): `try: self.q.put_nowait(None) except Exception: pass`
stop_sentinel(s) ==
    /\ stopPc[s] = "sentinel"
    /\ q' = put(q, s, NoneItem)
    /\ stopPc' = [stopPc EXCEPT ![s] = "join"]
    /\ UNCHANGED <<stopEv, tpc, held, dropped>>
    /\ UNCHANGED <<sessVars, recVars>>
    /\ UNCHANGED reconVars
    /\ UNCHANGED last_call
    /\ UNCHANGED logVars
    /\ UNCHANGED redaction
    /\ UNCHANGED wireVars
    /\ UNCHANGED fifoVars

\* stop(): `self.t.join(timeout=timeout)` returns when the thread has ended
\* or when the timeout has passed
stop_join(s) ==
    /\ stopPc[s] = "join"
    /\ stopPc' = [stopPc EXCEPT ![s] = "returned"]
    /\ UNCHANGED <<q, stopEv, tpc, held, dropped>>
    /\ UNCHANGED <<sessVars, recVars>>
    /\ UNCHANGED reconVars
    /\ UNCHANGED last_call
    /\ UNCHANGED logVars
    /\ UNCHANGED redaction
    /\ UNCHANGED wireVars
    /\ UNCHANGED fifoVars

\* ------------------------------------------------------------- video.py
Systems == {"Windows", "Darwin", "Linux"}

\* the ffmpeg process ends: on its own, on "q", or on a signal it was sent
\* self._stderr_fp.write(text): open(path, "w") gives a buffered text file, and
\* a write shorter than the buffer stays in the buffer
fp_write(buf, text) == Append(buf, text)

\* self._stderr_fp.close(): the buffer is written at the file position the
\* descriptor shares with the child process, i.e. at the end of what the
\* child has written so far
fp_flush(log, buf) == log \o buf

\* ffmpeg writes a piece of diagnostic output to its error stream, the
\* descriptor it inherited from Popen(stderr=self._stderr_fp); its writes go
\* to the file at once
Proc_write ==
    /\ proc = "running"
    /\ Cardinality({ i \in DOMAIN encLog : encLog[i] = "ffmpeg" }) < MaxLogWrites
    /\ encLog' = Append(encLog, "ffmpeg")
    /\ UNCHANGED pybuf
    /\ UNCHANGED recVars
    /\ UNCHANGED <<sinkVars, sessVars>>
    /\ UNCHANGED reconVars
    /\ UNCHANGED last_call
    /\ UNCHANGED redaction
    /\ UNCHANGED wireVars
    /\ UNCHANGED fifoVars

ProcExit ==
    /\ proc = "running"
    /\ proc' = "exited"
    /\ UNCHANGED <<screenRec, system, fp, rpc, startFailed, qWritten, timedOut,
                   forced, artifact>>
    /\ UNCHANGED <<sinkVars, sessVars>>
    /\ UNCHANGED reconVars
    /\ UNCHANGED last_call
    /\ UNCHANGED logVars
    /\ UNCHANGED redaction
    /\ UNCHANGED wireVars
    /\ UNCHANGED fifoVars

\* stop(): `if self.proc and self.proc.poll() is None`
Rec_stop_poll ==
    /\ rpc = "poll"
    /\ rpc' = IF proc = "running" THEN "write_q" ELSE "close"
    /\ UNCHANGED <<screenRec, system, proc, fp, startFailed, qWritten, timedOut,
                   forced, artifact>>
    /\ UNCHANGED <<sinkVars, sessVars>>
    /\ UNCHANGED reconVars
    /\ UNCHANGED last_call
    /\ UNCHANGED logVars
    /\ UNCHANGED redaction
    /\ UNCHANGED wireVars
    /\ UNCHANGED fifoVars

\* stop(): write b"q" to stdin and flush; the write raises when the process
\* has gone, then `self.proc.terminate()` finds nothing to signal
Rec_stop_write_q ==
    /\ rpc = "write_q"
    /\ qWritten' = (proc = "running")
    /\ rpc' = "wait"
    /\ UNCHANGED <<screenRec, system, proc, fp, startFailed, timedOut, forced,
                   artifact>>
    /\ UNCHANGED <<sinkVars, sessVars>>
    /\ UNCHANGED reconVars
    /\ UNCHANGED last_call
    /\ UNCHANGED logVars
    /\ UNCHANGED redaction
    /\ UNCHANGED wireVars
    /\ UNCHANGED fifoVars

\* stop(): `self.proc.wait(timeout=timeout)`
Rec_stop_wait ==
    /\ rpc = "wait"
    /\ IF proc = "exited"
       THEN rpc' = "close" /\ UNCHANGED timedOut
       ELSE rpc' = "escalate" /\ timedOut' = TRUE
    /\ UNCHANGED <<screenRec, system, proc, fp, startFailed, qWritten, forced,
                   artifact>>
    /\ UNCHANGED <<sinkVars, sessVars>>
    /\ UNCHANGED reconVars
    /\ UNCHANGED last_call
    /\ UNCHANGED logVars
    /\ UNCHANGED redaction
    /\ UNCHANGED wireVars
    /\ UNCHANGED fifoVars

\* stop(), except subprocess.TimeoutExpired: on Windows
\* `self.proc.send_signal(signal.CTRL_BREAK_EVENT)`, which may raise
Rec_stop_escalate ==
    /\ rpc = "escalate"
    /\ IF system = "Windows"
       THEN \E ok \in BOOLEAN :
              IF ok
              THEN /\ rpc' = "wait2"
                   /\ forced' = IF proc = "running"
                                THEN forced \cup {"ctrl_break"} ELSE forced
              ELSE rpc' = "kill2" /\ UNCHANGED forced
       ELSE rpc' = "kill1" /\ UNCHANGED forced
    /\ UNCHANGED <<screenRec, system, proc, fp, startFailed, qWritten, timedOut,
                   artifact>>
    /\ UNCHANGED <<sinkVars, sessVars>>
    /\ UNCHANGED reconVars
    /\ UNCHANGED last_call
    /\ UNCHANGED logVars
    /\ UNCHANGED redaction
    /\ UNCHANGED wireVars
    /\ UNCHANGED fifoVars

\* stop(): `self.proc.wait(timeout=2)` after CTRL_BREAK_EVENT
Rec_stop_wait2 ==
    /\ rpc = "wait2"
    /\ rpc' = IF proc = "exited" THEN "close" ELSE "kill2"
    /\ UNCHANGED <<screenRec, system, proc, fp, startFailed, qWritten, timedOut,
                   forced, artifact>>
    /\ UNCHANGED <<sinkVars, sessVars>>
    /\ UNCHANGED reconVars
    /\ UNCHANGED last_call
    /\ UNCHANGED logVars
    /\ UNCHANGED redaction
    /\ UNCHANGED wireVars
    /\ UNCHANGED fifoVars

\* Popen.kill(): returns at once for a process that has ended; for a live one
\* it sends the signal (the process ends later, ProcExit) or raises
kill_outcomes == IF proc = "running" THEN {"sent", "raised"} ELSE {"noop"}

\* stop(): `self.proc.kill()` in the try block (not Windows)
Rec_stop_kill1 ==
    /\ rpc = "kill1"
    /\ \E o \in kill_outcomes :
        /\ rpc' = IF o = "raised" THEN "kill2" ELSE "close"
        /\ forced' = IF o = "sent" THEN forced \cup {"kill"} ELSE forced
    /\ UNCHANGED <<screenRec, system, proc, fp, startFailed, qWritten, timedOut,
                   artifact>>
    /\ UNCHANGED <<sinkVars, sessVars>>
    /\ UNCHANGED reconVars
    /\ UNCHANGED last_call
    /\ UNCHANGED logVars
    /\ UNCHANGED redaction
    /\ UNCHANGED wireVars
    /\ UNCHANGED fifoVars

\* stop(): `except Exception: self.proc.kill()`; an exception here leaves stop()
Rec_stop_kill2 ==
    /\ rpc = "kill2"
    /\ \E o \in kill_outcomes :
        /\ rpc' = IF o = "raised" THEN "raised" ELSE "close"
        /\ forced' = IF o = "sent" THEN forced \cup {"kill"} ELSE forced
    /\ UNCHANGED <<screenRec, system, proc, fp, startFailed, qWritten, timedOut,
                   artifact>>
    /\ UNCHANGED <<sinkVars, sessVars>>
    /\ UNCHANGED reconVars
    /\ UNCHANGED last_call
    /\ UNCHANGED logVars
    /\ UNCHANGED redaction
    /\ UNCHANGED wireVars
    /\ UNCHANGED fifoVars

\* stop(): `if self._stderr_fp: self._stderr_fp.close()`
Rec_stop_close ==
    /\ rpc = "close"
    /\ fp' = IF fp = "open" THEN "closed" ELSE fp
    /\ IF fp = "open"
       THEN encLog' = fp_flush(encLog, pybuf) /\ pybuf' = <<>>
       ELSE UNCHANGED logVars
    /\ rpc' = "verify"
    /\ UNCHANGED <<screenRec, system, proc, startFailed, qWritten, timedOut,
                   forced, artifact>>
    /\ UNCHANGED <<sinkVars, sessVars>>
    /\ UNCHANGED reconVars
    /\ UNCHANGED last_call
    /\ UNCHANGED redaction
    /\ UNCHANGED wireVars
    /\ UNCHANGED fifoVars

\* what can be at self.out_path: nothing unless ffmpeg was launched
Artifacts == IF proc = "none" THEN {"missing"} ELSE {"missing", "empty", "ok"}

\* stop(): the os.path.exists / os.path.getsize check and the return
Rec_stop_verify ==
    /\ rpc = "verify"
    /\ \E a \in Artifacts :
        /\ artifact' = a
        /\ rpc' = IF a = "ok" THEN "returned" ELSE "raised"
    /\ UNCHANGED <<screenRec, system, proc, fp, startFailed, qWritten, timedOut,
                   forced>>
    /\ UNCHANGED <<sinkVars, sessVars>>
    /\ UNCHANGED reconVars
    /\ UNCHANGED last_call
    /\ UNCHANGED logVars
    /\ UNCHANGED redaction
    /\ UNCHANGED wireVars
    /\ UNCHANGED fifoVars

\* ----------------------------------------------------------- capture.py
\* config.action_types (config.py)
ActionTypes == {"mouse_move", "click", "scroll_start", "scroll_end", "type",
                "type_commit", "window_focus", "window_blur", "tab_hidden",
                "tab_visible", "navigation", "recorder_init", "log_error"}

\* msg.text of a console notification: text that does not start with "{",
\* text that starts with "{" and is not JSON, or a JSON object
Plain == [text |-> "plain", rec |-> "absent", type |-> "absent", ts |-> TsAbsent]
BadJson == [text |-> "badjson", rec |-> "absent", type |-> "absent", ts |-> TsAbsent]
Obj(rec, type, v) == [text |-> "obj", rec |-> rec, type |-> type, ts |-> v]

\* the values of "ts" in a notification
TsValues == { TsAbsent, TsNum(Seconds), TsNum(Millis), TsNum(MillisFrac),
              TsNum(AtThreshold), TsNum(OverThreshold), TsNum(Micros),
              TsStr(Millis) }

\* every shape of notification: "__rec" is 1, another value or missing;
\* "type" is in the allow-set, a string outside it, missing, or a JSON array
\* or object
AllRawMessages ==
    {Plain, BadJson} \cup
    { Obj(r, t, v) : r \in {"one", "other", "absent"},
                     t \in {"click", "type", "bogus", "absent", "unhashable"},
                     v \in TsValues }

\* the notifications delivered in a whole session
RawMessages == { Plain, Obj("one", "click", TsNum(Millis)) }

\* _emit_event: `if isinstance(ts, (int, float)) and ts > 1e10:
\*                   evt["ts"] = round(ts / 1000.0, 6)`
normalize_ts(v) ==
    IF v.kind = "num" /\ NumLess(MsEpochThreshold, v.v)
    THEN TsNum(DivThousandRound6(v.v))
    ELSE v

\* _emit_event: the record handed to self.jsonl.put
emit_evt(obj) == [k |-> "evt", type |-> obj.type, ts |-> normalize_ts(obj.ts)]

\* a console line `[TAG] ...`
Line(tag, payload) == [k |-> "line", tag |-> tag, payload |-> payload]

\* _on_console: `obj.get("__rec") == 1 and obj.get("type") in self.config.action_types`
accepted(msg) == msg.text = "obj" /\ msg.rec = "one" /\ msg.type \in ActionTypes

\* _on_console: the tag of the diagnostic line of a notification not accepted
diag_tag(msg) ==
    IF msg.text = "plain" THEN "BROWSER_CONSOLE"
    ELSE IF msg.text = "badjson" THEN "BROWSER_PARSE_ERR"
    ELSE "BROWSER_OTHER"

\* ---- Recorder._wire: the pages of the browser context
NoPid == "none"
MainPid == "1a2b3c4d"
Pages == {"main", "popup", "popup2"}
NoEmit == [page |-> "none", pids |-> <<>>]

\* self.page_ids = {} and no page created
NoPages ==
    /\ page_ids = [pg \in Pages |-> NoPid]
    /\ console_subs = [pg \in Pages |-> <<>>]
    /\ popup_subs = [pg \in Pages |-> 0]
    /\ stage = [pg \in Pages |-> "unopened"]
    /\ emitted = NoEmit

\* the state after context.new_page(): the context's "page" handler has wired
\* the first page
MainPageWired ==
    /\ page_ids = [pg \in Pages |-> IF pg = "main" THEN MainPid ELSE NoPid]
    /\ console_subs = [pg \in Pages |-> IF pg = "main" THEN <<MainPid>> ELSE <<>>]
    /\ popup_subs = [pg \in Pages |-> IF pg = "main" THEN 1 ELSE 0]
    /\ stage = [pg \in Pages |-> IF pg = "main" THEN "wired" ELSE "unopened"]
    /\ emitted = NoEmit

\* the values of str(uuid.uuid4())[:8] in the model
Pids == {MainPid, "5e6f7a8b"}

\* the page that opened pg, for a popup
opener(pg) ==
    IF pg = "popup" THEN "main" ELSE IF pg = "popup2" THEN "popup" ELSE "none"

\* dict.setdefault that assigns even when the key is present
setdefault_overwrite(ids, pg, fresh) == [ids EXCEPT ![pg] = fresh]

\* `self.page_ids.setdefault(page, str(uuid.uuid4())[:8])`: the mapping
\* afterwards
setdefault(ids, pg, fresh) ==
    IF ids[pg] = NoPid THEN [ids EXCEPT ![pg] = fresh] ELSE ids

\* _wire(pg) called n times, on w = the mapping and the subscriptions:
\* `pid = self.page_ids.setdefault(...)`, `page.on("console", _on_console)`
\* with pid in the closure, `page.on("popup", _on_popup)`
RECURSIVE wire(_, _, _, _)
wire(w, pg, fresh, n) ==
    IF n = 0 THEN w
    ELSE wire([ids |-> setdefault(w.ids, pg, fresh),
               console |-> [w.console EXCEPT
                              ![pg] = Append(@, setdefault(w.ids, pg, fresh)[pg])],
               popup |-> [w.popup EXCEPT ![pg] = @ + 1]],
              pg, fresh, n - 1)

\* self.page_ids and the subscriptions as they are
Wiring == [ids |-> page_ids, console |-> console_subs, popup |-> popup_subs]

\* _wire(pg) is called n times
wired(pg, fresh, n) ==
    /\ page_ids' = wire(Wiring, pg, fresh, n).ids
    /\ console_subs' = wire(Wiring, pg, fresh, n).console
    /\ popup_subs' = wire(Wiring, pg, fresh, n).popup

\* ---- _on_console: the redaction of long input values
\* `len(v) <= 120`
MaxValueLen == 120
\* `v[:117]`
KeptLen == 117
\* the one character "…" appended to a shortened value
Ellipsis == "U+2026"

\* obj["value"] as a string of n characters, or a number, or missing
StrValue(n, pat) ==
    [kind |-> "str",
     chars |-> [i \in 1..n |-> IF pat = "abc" THEN <<"a", "b", "c">>[(i % 3) + 1]
                               ELSE "x"]]
ValueLens == (0..2) \cup ((KeptLen - 2)..(MaxValueLen + 3))
Values == { StrValue(n, pat) : n \in ValueLens, pat \in {"abc", "x"} }
              \cup { [kind |-> "num"], [kind |-> "absent"] }
ValueTypes == {"type", "type_commit", "click", "scroll_end"}
NoRedaction == [type |-> "none", value |-> [kind |-> "absent"],
                out |-> [kind |-> "absent"]]

\* the value is cut to its first 120 characters and the ellipsis appended
redact_keep_all(type, v) ==
    IF type \in {"type", "type_commit"} /\ v.kind = "str"
    THEN IF Len(v.chars) <= MaxValueLen THEN v
         ELSE [kind |-> "str",
               chars |-> SubSeq(v.chars, 1, MaxValueLen) \o <<Ellipsis>>]
    ELSE v

\* `if obj.get("type") in {"type", "type_commit"} and isinstance(obj.get("value"), str):
\*      v = obj["value"]; obj["value"] = v if len(v) <= 120 else (v[:117] + "…")`
redact(type, v) ==
    IF type \in {"type", "type_commit"} /\ v.kind = "str"
    THEN IF Len(v.chars) <= MaxValueLen THEN v
         ELSE [kind |-> "str",
               chars |-> SubSeq(v.chars, 1, KeptLen) \o <<Ellipsis>>]
    ELSE v

\* _on_console for an accepted notification of the given type and value: the
\* value _emit_event receives
on_console_value(type, v) ==
    /\ spc \in {"goto", "loop"}
    /\ redaction' = [type |-> type, value |-> v, out |-> redact(type, v)]
    /\ UNCHANGED <<sinkVars, sessVars, recVars, reconVars>>
    /\ UNCHANGED last_call
    /\ UNCHANGED logVars
    /\ UNCHANGED wireVars
    /\ UNCHANGED fifoVars

\* _on_console: `obj.get("type") in self.config.action_types` raises
\* TypeError when the value of "type" is a JSON array or object
raises(msg) == msg.text = "obj" /\ msg.rec = "one" /\ msg.type = "unhashable"

\* the arguments of the put() calls of one call of _on_console: whether the
\* record was accepted, the number of puts to the structured sink and the
\* tags of the lines put to the console sink
Call(acc, n, tags) == [accepted |-> acc, jsonl |-> n, pump |-> tags]
NoCall == [accepted |-> FALSE, jsonl |-> 0, pump |-> <<"none">>]

\* _wire._on_console(msg), with _emit_event for an accepted record; console
\* events are dispatched while the main thread is inside page.goto or
\* wait_for_timeout.  An exception of the handler is either kept from the main
\* thread by the event dispatch or raised from the call that dispatched it
on_console(msg) ==
    /\ spc \in {"goto", "loop"}
    /\ IF raises(msg)
       THEN /\ last_call' = Call(FALSE, 0, <<>>)
            /\ \E surfaced \in BOOLEAN :
                 IF surfaced
                 THEN spc' = "finally" /\ err' = TRUE
                 ELSE UNCHANGED <<spc, err>>
            /\ UNCHANGED <<q, dropped, captured>>
       ELSE /\ UNCHANGED <<spc, err>>
            /\ IF accepted(msg)
               THEN /\ q' = put(put(q, "jsonl", emit_evt(msg)), "pump",
                                Line("BROWSER_LOG", emit_evt(msg)))
                    /\ dropped' = put_drops(put_drops(dropped, q, "jsonl"), q, "pump")
                    /\ captured' = TRUE
                    /\ last_call' = Call(TRUE, 1, <<"BROWSER_LOG">>)
               ELSE IF debug
               THEN /\ q' = put(q, "pump", Line(diag_tag(msg), NoItem))
                    /\ dropped' = put_drops(dropped, q, "pump")
                    /\ UNCHANGED captured
                    /\ last_call' = Call(FALSE, 0, <<diag_tag(msg)>>)
               ELSE /\ UNCHANGED <<q, dropped, captured>>
                    /\ last_call' = Call(FALSE, 0, <<>>)
    /\ UNCHANGED <<stopEv, tpc, held, stopPc>>
    /\ UNCHANGED <<debug, statusPut, shutdownLog>>
    /\ UNCHANGED recVars
    /\ UNCHANGED reconVars
    /\ UNCHANGED logVars
    /\ UNCHANGED redaction
    /\ UNCHANGED wireVars
    /\ UNCHANGED fifoVars

\* self.pump.put of a `[RECORDER] ...` status line
put_status(tag) ==
    /\ q' = put(q, "pump", Line(tag, NoItem))
    /\ dropped' = put_drops(dropped, q, "pump")
    /\ statusPut' = statusPut \cup {tag}

\* start(): `self.pump.start()`, `self.jsonl.start()`
Session_start_sinks ==
    /\ spc = "init"
    /\ start(Sinks)
    /\ spc' = "setup"
    /\ UNCHANGED <<q, stopEv, held, stopPc, dropped>>
    /\ UNCHANGED <<debug, captured, err, statusPut, shutdownLog>>
    /\ UNCHANGED recVars
    /\ UNCHANGED reconVars
    /\ UNCHANGED last_call
    /\ UNCHANGED logVars
    /\ UNCHANGED redaction
    /\ UNCHANGED wireVars
    /\ UNCHANGED fifoVars

\* start(): sync_playwright, launch, new_context, add_init_script, wiring,
\* new_page, set_window_state; any of them may raise.  new_page() makes the
\* context announce the page, and the "page" handler wires it; a failure comes
\* before new_page() or after it
Session_setup ==
    /\ spc = "setup"
    /\ \E ok \in BOOLEAN :
        /\ spc' = IF ok THEN "goto" ELSE "finally"
        /\ err' = ~ok
        /\ IF ok
           THEN /\ \E fresh \in Pids : wired("main", fresh, 1)
                /\ stage' = [stage EXCEPT !["main"] = "wired"]
                /\ UNCHANGED emitted
           ELSE \/ UNCHANGED wireVars
                \/ /\ \E fresh \in Pids : wired("main", fresh, 1)
                   /\ stage' = [stage EXCEPT !["main"] = "wired"]
                   /\ UNCHANGED emitted
    /\ UNCHANGED sinkVars
    /\ UNCHANGED <<debug, captured, statusPut, shutdownLog>>
    /\ UNCHANGED recVars
    /\ UNCHANGED reconVars
    /\ UNCHANGED last_call
    /\ UNCHANGED logVars
    /\ UNCHANGED redaction
    /\ UNCHANGED fifoVars

\* start(): page.goto(...) returns or raises
Session_goto ==
    /\ spc = "goto"
    /\ \E ok \in BOOLEAN :
        /\ spc' = IF ok THEN "rec_ctor" ELSE "finally"
        /\ err' = ~ok
    /\ UNCHANGED sinkVars
    /\ UNCHANGED <<debug, captured, statusPut, shutdownLog>>
    /\ UNCHANGED recVars
    /\ UNCHANGED reconVars
    /\ UNCHANGED last_call
    /\ UNCHANGED logVars
    /\ UNCHANGED redaction
    /\ UNCHANGED wireVars
    /\ UNCHANGED fifoVars

\* start() without the inner `except Exception`: the startup failure is not
\* caught and leaves the try block
start_failed_reraised ==
    /\ startFailed' = TRUE
    /\ err' = TRUE
    /\ spc' = "finally"
    /\ UNCHANGED <<q, dropped, statusPut>>
    /\ UNCHANGED <<stopEv, tpc, held, stopPc>>
    /\ UNCHANGED <<debug, captured, shutdownLog>>

\* start(): `except Exception as e: self.pump.put("[RECORDER] Failed to start
\* screen recording ...")`, then the event loop
start_failed_handler ==
    /\ put_status("RECORDER_START_FAILED")
    /\ startFailed' = TRUE
    /\ spc' = "loop"
    /\ UNCHANGED <<stopEv, tpc, held, stopPc>>
    /\ UNCHANGED <<debug, captured, err, shutdownLog>>

\* FFmpegFullScreenRecorder.__init__ called from start(): raises on an
\* unsupported platform, when ffmpeg is not on PATH, or when no screen
\* device is found (macOS)
Rec_ctor ==
    /\ spc = "rec_ctor"
    /\ \E sys \in Systems, found \in BOOLEAN, device \in BOOLEAN :
        IF sys \in {"Windows", "Darwin"} /\ found /\ (sys = "Darwin" => device)
        THEN /\ screenRec' = TRUE
             /\ system' = sys
             /\ spc' = "rec_start"
             /\ UNCHANGED <<startFailed, sinkVars>>
             /\ UNCHANGED <<debug, captured, err, statusPut, shutdownLog>>
        ELSE /\ start_failed_handler
             /\ UNCHANGED <<screenRec, system>>
    /\ UNCHANGED <<proc, fp, rpc, qWritten, timedOut, forced, artifact>>
    /\ UNCHANGED reconVars
    /\ UNCHANGED last_call
    /\ UNCHANGED logVars
    /\ UNCHANGED redaction
    /\ UNCHANGED wireVars
    /\ UNCHANGED fifoVars

\* FFmpegFullScreenRecorder.start(): open the log, Popen, write the
\* host-clock timestamp; open or Popen may raise
Rec_start ==
    /\ spc = "rec_start"
    /\ \E o \in {"ok", "open_failed", "popen_failed"} :
        IF o = "ok"
        THEN /\ fp' = "open"
             /\ proc' = "running"
             /\ spc' = "rec_poll"
             /\ encLog' = <<>>
             /\ pybuf' = fp_write(pybuf, "ts")
             /\ UNCHANGED <<startFailed, sinkVars>>
             /\ UNCHANGED <<debug, captured, err, statusPut, shutdownLog>>
        ELSE /\ fp' = IF o = "popen_failed" THEN "open" ELSE fp
             /\ encLog' = IF o = "popen_failed" THEN <<>> ELSE encLog
             /\ start_failed_handler
             /\ UNCHANGED <<proc, pybuf>>
    /\ UNCHANGED <<screenRec, system, rpc, qWritten, timedOut, forced, artifact>>
    /\ UNCHANGED reconVars
    /\ UNCHANGED last_call
    /\ UNCHANGED redaction
    /\ UNCHANGED wireVars
    /\ UNCHANGED fifoVars

\* FFmpegFullScreenRecorder.start(): after the sleep, `if self.proc.poll() is
\* not None: raise`; on return start() puts the "recording started" line
Rec_start_poll ==
    /\ spc = "rec_poll"
    /\ IF proc = "exited"
       THEN start_failed_handler
       ELSE /\ put_status("RECORDER_STARTED")
            /\ spc' = "loop"
            /\ UNCHANGED <<stopEv, tpc, held, stopPc>>
            /\ UNCHANGED <<startFailed, debug, captured, err, shutdownLog>>
    /\ UNCHANGED <<screenRec, system, proc, fp, rpc, qWritten, timedOut, forced,
                   artifact>>
    /\ UNCHANGED reconVars
    /\ UNCHANGED last_call
    /\ UNCHANGED logVars
    /\ UNCHANGED redaction
    /\ UNCHANGED wireVars
    /\ UNCHANGED fifoVars

\* start(): the loop ends when the browser is closed, or an exception leaves it
Loop_exit ==
    /\ spc = "loop"
    /\ \E raised \in BOOLEAN : err' = raised
    /\ spc' = "finally"
    /\ UNCHANGED sinkVars
    /\ UNCHANGED <<debug, captured, statusPut, shutdownLog>>
    /\ UNCHANGED recVars
    /\ UNCHANGED reconVars
    /\ UNCHANGED last_call
    /\ UNCHANGED logVars
    /\ UNCHANGED redaction
    /\ UNCHANGED wireVars
    /\ UNCHANGED fifoVars

\* finally: `if self.screen_rec:` calls self.screen_rec.stop(); without a
\* recorder the block goes on to self.pump.stop()
Finally_begin ==
    /\ spc = "finally"
    /\ IF screenRec
       THEN /\ spc' = "rec_stop"
            /\ rpc' = "poll"
            /\ shutdownLog' = Append(shutdownLog, "recorder")
            /\ UNCHANGED stopPc
       ELSE /\ spc' = "pump_stop"
            /\ stopPc' = [stopPc EXCEPT !["pump"] = "set"]
            /\ shutdownLog' = Append(shutdownLog, "pump")
            /\ UNCHANGED rpc
    /\ UNCHANGED <<q, stopEv, tpc, held, dropped>>
    /\ UNCHANGED <<debug, captured, err, statusPut>>
    /\ UNCHANGED <<screenRec, system, proc, fp, startFailed, qWritten, timedOut,
                   forced, artifact>>
    /\ UNCHANGED reconVars
    /\ UNCHANGED last_call
    /\ UNCHANGED logVars
    /\ UNCHANGED redaction
    /\ UNCHANGED wireVars
    /\ UNCHANGED fifoVars

\* finally without the `except Exception`: an exception of screen_rec.stop()
\* is not caught and leaves the finally block
Finally_report_uncaught ==
    /\ spc = "rec_stop"
    /\ rpc \in {"returned", "raised"}
    /\ IF rpc = "returned"
       THEN /\ put_status("RECORDER_SAVED")
            /\ spc' = "pump_stop"
            /\ stopPc' = [stopPc EXCEPT !["pump"] = "set"]
            /\ shutdownLog' = Append(shutdownLog, "pump")
            /\ UNCHANGED err
       ELSE /\ spc' = "done"
            /\ err' = TRUE
            /\ UNCHANGED <<q, dropped, statusPut, stopPc, shutdownLog>>
    /\ UNCHANGED <<stopEv, tpc, held>>
    /\ UNCHANGED <<debug, captured>>
    /\ UNCHANGED recVars
    /\ UNCHANGED reconVars
    /\ UNCHANGED last_call
    /\ UNCHANGED logVars
    /\ UNCHANGED redaction
    /\ UNCHANGED wireVars
    /\ UNCHANGED fifoVars

\* finally: the "saved" line after stop() returned, or `except Exception as e:`
\* with the "Video stop failed" line; then self.pump.stop() is called
Finally_report ==
    /\ spc = "rec_stop"
    /\ rpc \in {"returned", "raised"}
    /\ put_status(IF rpc = "returned" THEN "RECORDER_SAVED" ELSE "RECORDER_STOP_FAILED")
    /\ spc' = "pump_stop"
    /\ stopPc' = [stopPc EXCEPT !["pump"] = "set"]
    /\ shutdownLog' = Append(shutdownLog, "pump")
    /\ UNCHANGED <<stopEv, tpc, held>>
    /\ UNCHANGED <<debug, captured, err>>
    /\ UNCHANGED recVars
    /\ UNCHANGED reconVars
    /\ UNCHANGED last_call
    /\ UNCHANGED logVars
    /\ UNCHANGED redaction
    /\ UNCHANGED wireVars
    /\ UNCHANGED fifoVars

\* finally: self.pump.stop() has returned, self.jsonl.stop() is called
Finally_jsonl_stop ==
    /\ spc = "pump_stop"
    /\ stopPc["pump"] = "returned"
    /\ spc' = "jsonl_stop"
    /\ stopPc' = [stopPc EXCEPT !["jsonl"] = "set"]
    /\ shutdownLog' = Append(shutdownLog, "jsonl")
    /\ UNCHANGED <<q, stopEv, tpc, held, dropped>>
    /\ UNCHANGED <<debug, captured, err, statusPut>>
    /\ UNCHANGED recVars
    /\ UNCHANGED reconVars
    /\ UNCHANGED last_call
    /\ UNCHANGED logVars
    /\ UNCHANGED redaction
    /\ UNCHANGED wireVars
    /\ UNCHANGED fifoVars

\* finally: `print("exit", flush=True)`; start() returns or re-raises
Session_exit ==
    /\ spc = "jsonl_stop"
    /\ stopPc["jsonl"] = "returned"
    /\ spc' = "done"
    /\ UNCHANGED sinkVars
    /\ UNCHANGED <<debug, captured, err, statusPut, shutdownLog>>
    /\ UNCHANGED recVars
    /\ UNCHANGED reconVars
    /\ UNCHANGED last_call
    /\ UNCHANGED logVars
    /\ UNCHANGED redaction
    /\ UNCHANGED wireVars
    /\ UNCHANGED fifoVars

\* -------------------------------------------------------- parser_mac.py
\* bounds of the reconciliation inputs
MaxEvents == 2
MaxMarkers == 2

\* a Num from limbs outside their range; hi carries the sign
NumNorm(hi, lo, us) ==
    LET lo1 == lo + (us \div Limb)
    IN  Num(hi + (lo1 \div Limb), lo1 % Limb, us % Limb)

NumAdd(a, b) == NumNorm(a.hi + b.hi, a.lo + b.lo, a.us + b.us)
NumSub(a, b) == NumNorm(a.hi - b.hi, a.lo - b.lo, a.us - b.us)
Zero == Num(0, 0, 0)

\* `ms / 1000.0` for a whole number of milliseconds
MsToSeconds(ms) == NumNorm(0, 0, ms * 1000)

\* `int(ts*1000)` for ts >= 0
TimesThousandInt(n) ==
    LET lo1 == n.lo * 1000 + (n.us \div 1000)
    IN  Num(n.hi * 1000 + (lo1 \div Limb), lo1 % Limb, 0)

\* an Optional[float]
NoneTs == [kind |-> "None", v |-> Zero]
Float(n) == [kind |-> "float", v |-> n]
\* -math.inf
NegInf == [kind |-> "-inf", v |-> Zero]

\* extract_ffmpeg_start_ts that ignores `prefer` and takes the first marker
extract_ffmpeg_start_ts_first(ms, pref) ==
    IF ms = <<>> THEN NoneTs ELSE Float(ms[1])

\* extract_ffmpeg_start_ts that falls back to 0.0 when the log has no marker
extract_ffmpeg_start_ts_or_zero(ms, pref) ==
    IF ms = <<>> THEN Float(Zero)
    ELSE IF pref = "first" THEN Float(ms[1])
    ELSE Float(ms[Len(ms)])

\* extract_ffmpeg_start_ts over the values of the markers found by START_RE
extract_ffmpeg_start_ts(ms, pref) ==
    IF ms = <<>> THEN NoneTs
    ELSE IF pref = "first" THEN Float(ms[1])
    ELSE Float(ms[Len(ms)])

\* host_seconds_to_epoch that adds the marker to the wall clock alone
host_seconds_to_epoch_wall_only(wall, host, host_secs) == NumAdd(wall, host_secs)

\* host_seconds_to_epoch: `(wall_now - host_now) + host_secs`
host_seconds_to_epoch(wall, host, host_secs) ==
    NumAdd(NumSub(wall, host), host_secs)

\* a line of the event log that is not JSON
Garbage == [k |-> "garbage"]

\* read_jsonl: the lines that parse, in file order
read_jsonl(lines) == SelectSeq(lines, LAMBDA l : l.k = "evt")

\* sanitize_ts(ev.get("ts"))
sanitize_ts(v) ==
    IF v.kind = "absent" THEN NoneTs
    ELSE Float(v.v)

\* the clock readings and marker values of a run
WallSamples == { Num(1700, 1000, 0), Num(1700, 1000, 500000) }
HostSamples == { Num(0, 6000, 0), Num(0, 6000, 500000) }
MarkerValues == { Num(0, 5000, 250000), Num(0, 5001, 0) }

\* the "ts" of the notifications of the recorded session, in seconds and in
\* milliseconds, as a number and as a string
SessionTs == { TsAbsent, TsNum(Seconds), TsNum(Num(1700, 2, 0)),
               TsNum(Num(1700000, 3000, 0)), TsStr(Num(1700000, 4000, 0)) }

\* the lines an event log can hold: the records _emit_event hands to the
\* structured sink, and a line that is not JSON
LogLines ==
    { emit_evt(Obj("one", "click", v)) : v \in SessionTs }
        \cup {emit_evt(Obj("one", "scroll_end", TsNum(Num(1700, 2, 0)))), Garbage}

SeqsUpTo(S, n) == UNION { [1..k -> S] : k \in 0..n }

\* the parameters of a run
IncludeChoices == { [given |-> FALSE, types |-> {}],
                    [given |-> TRUE, types |-> {"click"}] }
OffsetMsChoices == { 0 - 1000, 0, 1000 }
MinGapMsChoices == { 0, 2000 }

\* args.out_jsonl: not given (logs/<basename>_frames.jsonl), or a path that
\* resolves to the input event log
OutJsonlChoices == { "default", "input" }

\* a record left in the output log by an earlier run
StaleRecord ==
    [ev |-> [k |-> "evt", type |-> "click", ts |-> TsNum(Seconds)],
     frame_path |-> [counter |-> 1, type |-> "click",
                     ms |-> Num(1700000, 0, 0)]]

\* the reconciliation pass is not running
ReconIdle ==
    /\ mpc = "idle"
    /\ markers = <<>>
    /\ prefer = "last"
    /\ wall_now = Zero
    /\ host_now = Zero
    /\ evLog = <<>>
    /\ idx = 0
    /\ video_start_epoch = Zero
    /\ ts = NoneTs
    /\ counter = 1
    /\ last_rel = NegInf
    /\ outLog = <<>>
    /\ include_types = [given |-> FALSE, types |-> {}]
    /\ offset_ms = 0
    /\ min_gap_ms = 0
    /\ host_start = NoneTs
    /\ out_jsonl = "default"
    /\ out_exists = FALSE
    /\ failed = {}
    /\ frames = {}

\* the arguments of main(), which no statement assigns
mainArgs == <<markers, prefer, include_types, offset_ms, min_gap_ms, out_jsonl>>

\* main(): the arguments are parsed and the three input files are looked up
main_files ==
    /\ mpc = "files"
    /\ \E missing \in BOOLEAN :
         mpc' = IF missing THEN "FileNotFoundError" ELSE "anchor"
    /\ UNCHANGED <<wall_now, host_now, evLog, idx, video_start_epoch, ts,
                   counter, last_rel, outLog, host_start, out_exists, failed,
                   frames>>
    /\ UNCHANGED mainArgs
    /\ UNCHANGED <<sinkVars, sessVars, recVars>>
    /\ UNCHANGED last_call
    /\ UNCHANGED logVars
    /\ UNCHANGED redaction
    /\ UNCHANGED wireVars
    /\ UNCHANGED fifoVars

\* main(): `host_start = extract_ffmpeg_start_ts(...)`, the RuntimeError when
\* it is None, `video_start_epoch = host_seconds_to_epoch(host_start)`
main_anchor ==
    /\ mpc = "anchor"
    /\ host_start' = extract_ffmpeg_start_ts(markers, prefer)
    /\ IF host_start' = NoneTs
       THEN /\ mpc' = "RuntimeError: no start"
            /\ UNCHANGED <<wall_now, host_now, video_start_epoch>>
       ELSE /\ mpc' = "which"
            /\ wall_now' \in WallSamples
            /\ host_now' \in HostSamples
            /\ video_start_epoch' =
                   host_seconds_to_epoch(wall_now', host_now', host_start'.v)
    /\ UNCHANGED <<evLog, idx, ts, counter, last_rel, outLog, out_exists,
                   failed, frames>>
    /\ UNCHANGED mainArgs
    /\ UNCHANGED <<sinkVars, sessVars, recVars>>
    /\ UNCHANGED last_call
    /\ UNCHANGED logVars
    /\ UNCHANGED redaction
    /\ UNCHANGED wireVars
    /\ UNCHANGED fifoVars

\* main(): `ffmpeg_bin = which_ffmpeg()` ... `fout = out_jsonl.open("w")`,
\* which creates or truncates the file the path names
main_open ==
    /\ mpc = "which"
    /\ \E found \in BOOLEAN :
         IF ~found
         THEN /\ mpc' = "RuntimeError: no ffmpeg"
              /\ UNCHANGED <<outLog, out_exists, evLog>>
         ELSE /\ mpc' = "loop"
              /\ IF out_jsonl = "input"
                 THEN evLog' = <<>> /\ UNCHANGED <<outLog, out_exists>>
                 ELSE outLog' = <<>> /\ out_exists' = TRUE /\ UNCHANGED evLog
    /\ counter' = 1
    /\ last_rel' = NegInf
    /\ UNCHANGED <<wall_now, host_now, idx, video_start_epoch, ts, host_start,
                   failed, frames>>
    /\ UNCHANGED mainArgs
    /\ UNCHANGED <<sinkVars, sessVars, recVars>>
    /\ UNCHANGED last_call
    /\ UNCHANGED logVars
    /\ UNCHANGED redaction
    /\ UNCHANGED wireVars
    /\ UNCHANGED fifoVars

\* `min_gap_s = args.min_gap_ms / 1000.0 if args.min_gap_ms > 0 else 0.0`
min_gap_s == IF min_gap_ms > 0 THEN MsToSeconds(min_gap_ms) ELSE Zero

\* `offset_s = args.offset_ms / 1000.0`
offset_s == MsToSeconds(offset_ms)

\* `rel_t = (ts - video_start_epoch) + offset_s` for an anchor
rel_time_from(anchor, t) == NumAdd(NumSub(t, anchor), offset_s)

\* `rel_t = (ts - video_start_epoch) + offset_s`
rel_time(t) == rel_time_from(video_start_epoch, t)

\* the gap test passes everything: `if rel_t - last_rel < min_gap_s` left out
too_close_never(rel_t, last) == FALSE

\* `if rel_t - last_rel < min_gap_s`
too_close(rel_t, last) ==
    last.kind = "float" /\ NumLess(NumSub(rel_t, last.v), min_gap_s)

\* the loop body without `ts < video_start_epoch`: only the sign of the
\* relative time is tested
skipped_with_rel_only(anchor, last, ev, t) ==
    \/ t.kind = "None"
    \/ include_types.given /\ ev.type \notin include_types.types
    \/ NumLess(rel_time_from(anchor, t.v), Zero)
    \/ too_close(rel_time_from(anchor, t.v), last)

\* the tests of the loop body that `continue` before a frame is extracted,
\* for an anchor and a last retained relative time
skipped_with(anchor, last, ev, t) ==
    \/ t.kind = "None"
    \/ NumLess(t.v, anchor)
    \/ include_types.given /\ ev.type \notin include_types.types
    \/ NumLess(rel_time_from(anchor, t.v), Zero)
    \/ too_close(rel_time_from(anchor, t.v), last)

\* the tests of the loop body that `continue` before a frame is extracted
skipped(ev, t) == skipped_with(video_start_epoch, last_rel, ev, t)

\* `fname` without the running counter: every name starts with 000001
frame_name_fixed(n, ev, t) == [counter |-> 1, type |-> ev.type, ms |-> TimesThousandInt(t)]

\* `fname` for a value of the sequence counter
frame_name(n, ev, t) == [counter |-> n, type |-> ev.type, ms |-> TimesThousandInt(t)]

\* `ev_out = dict(ev); ev_out["frame_path"] = ...` for a value of the counter
augmented_with(n, ev, t) == [ev |-> ev, frame_path |-> frame_name(n, ev, t)]

\* `fname`, with `frame_path` added to a copy of the record
augmented(ev, t) == augmented_with(counter, ev, t)

\* the record goes to the front of the output log
write_out_front(log, rec) == <<rec>> \o log

\* `fout.write(json.dumps(ev_out, ensure_ascii=False) + "\n")`
write_out(log, rec) == Append(log, rec)

\* a failed extraction that still consumes a value of the counter
extract_failed_counting == counter' = counter + 1 /\ UNCHANGED <<outLog, last_rel>>

\* `except Exception: continue` around extract_frame
extract_failed == UNCHANGED <<outLog, counter, last_rel>>

\* main(): one pass of `for ev in read_jsonl(jsonl_path)`; extract_frame
\* returns or raises
main_event ==
    /\ mpc = "loop"
    /\ idx < Len(read_jsonl(evLog))
    /\ idx' = idx + 1
    /\ LET ev == read_jsonl(evLog)[idx + 1]
           t == sanitize_ts(ev.ts)
       IN  /\ ts' = t
           /\ IF skipped(ev, t)
              THEN UNCHANGED <<outLog, counter, last_rel, failed, frames>>
              ELSE \E extracted \in BOOLEAN :
                     IF extracted
                     THEN /\ frames' = frames \cup {frame_name(counter, ev, t.v)}
                          /\ outLog' = write_out(outLog, augmented(ev, t.v))
                          /\ counter' = counter + 1
                          /\ last_rel' = Float(rel_time(t.v))
                          /\ UNCHANGED failed
                     ELSE /\ failed' = failed \cup {idx + 1}
                          /\ extract_failed
                          /\ UNCHANGED frames
    /\ UNCHANGED <<mpc, wall_now, host_now, evLog, video_start_epoch,
                   host_start, out_exists>>
    /\ UNCHANGED mainArgs
    /\ UNCHANGED <<sinkVars, sessVars, recVars>>
    /\ UNCHANGED last_call
    /\ UNCHANGED logVars
    /\ UNCHANGED redaction
    /\ UNCHANGED wireVars
    /\ UNCHANGED fifoVars

\* main(): the event log is exhausted, the output log is closed
main_done ==
    /\ mpc = "loop"
    /\ idx = Len(read_jsonl(evLog))
    /\ mpc' = "done"
    /\ UNCHANGED <<wall_now, host_now, evLog, idx, video_start_epoch, ts,
                   counter, last_rel, outLog, host_start, out_exists, failed,
                   frames>>
    /\ UNCHANGED mainArgs
    /\ UNCHANGED <<sinkVars, sessVars, recVars>>
    /\ UNCHANGED last_call
    /\ UNCHANGED logVars
    /\ UNCHANGED redaction
    /\ UNCHANGED wireVars
    /\ UNCHANGED fifoVars

\* ------------------------------------------------------- specifications
\* Recorder.__init__ with its LogPump and JsonlWriter, before start()
Init ==
    /\ q = [s \in Sinks |-> <<>>]
    /\ stopEv = [s \in Sinks |-> FALSE]
    /\ tpc = [s \in Sinks |-> "init"]
    /\ held = [s \in Sinks |-> NoItem]
    /\ stopPc = [s \in Sinks |-> "idle"]
    /\ dropped = {}
    /\ spc = "init"
    /\ debug \in BOOLEAN
    /\ captured = FALSE
    /\ err = FALSE
    /\ statusPut = {}
    /\ shutdownLog = <<>>
    /\ screenRec = FALSE
    /\ system = "none"
    /\ proc = "none"
    /\ fp = "none"
    /\ rpc = "idle"
    /\ startFailed = FALSE
    /\ qWritten = FALSE
    /\ timedOut = FALSE
    /\ forced = {}
    /\ artifact = "unchecked"
    /\ ReconIdle
    /\ last_call = NoCall
    /\ encLog = <<>>
    /\ pybuf = <<>>
    /\ redaction = NoRedaction
    /\ NoPages
    /\ putLog = <<>>
    /\ written = <<>>

\* the consumer threads of the two sinks
Consumer ==
    \/ \E s \in Sinks : run_check(s)
    \/ \E s \in Sinks : run_get(s)
    \/ LogPump_emit
    \/ JsonlWriter_emit

\* the caller of stop(), step by step
Stopping ==
    \/ \E s \in Sinks : stop_set(s)
    \/ \E s \in Sinks : stop_sentinel(s)
    \/ \E s \in Sinks : stop_join(s)

\* the main thread in Recorder.start
Session ==
    \/ Session_start_sinks
    \/ Session_setup
    \/ Session_goto
    \/ \E msg \in RawMessages : on_console(msg)
    \/ Rec_ctor
    \/ Rec_start
    \/ Rec_start_poll
    \/ Loop_exit
    \/ Finally_begin
    \/ Finally_report
    \/ Finally_jsonl_stop
    \/ Session_exit

\* the main thread inside FFmpegFullScreenRecorder.stop
RecorderStop ==
    \/ Rec_stop_poll
    \/ Rec_stop_write_q
    \/ Rec_stop_wait
    \/ Rec_stop_escalate
    \/ Rec_stop_wait2
    \/ Rec_stop_kill1
    \/ Rec_stop_kill2
    \/ Rec_stop_close
    \/ Rec_stop_verify

\* The main thread and the ffmpeg process.  The main thread reads nothing that
\* a consumer thread writes (put() and join(timeout) return whatever the
\* consumer does), so the consumer threads are left to SinkSpec.
Next == Session \/ RecorderStop \/ Stopping \/ ProcExit \/ Proc_write

Spec == Init /\ [][Next]_vars

\* ---- the two sinks under any caller: start(), then put() any number of
\* times, then stop(), against the consumer threads
SinkItems(s) ==
    IF s = "jsonl"
    THEN { emit_evt(Obj("one", t, TsNum(Seconds))) : t \in {"click", "type"} }
    ELSE { Line("RECORDER_SAVED", NoItem) }

\* the caller, one thread, is not inside a stop()
OwnerFree == \A s \in Sinks : stopPc[s] \in {"idle", "returned"}

\* the caller starts sink s
Owner_start(s) ==
    /\ OwnerFree
    /\ tpc[s] = "init"
    /\ start({s})
    /\ UNCHANGED <<q, stopEv, held, stopPc, dropped>>
    /\ UNCHANGED <<sessVars, recVars>>
    /\ UNCHANGED reconVars
    /\ UNCHANGED last_call
    /\ UNCHANGED logVars
    /\ UNCHANGED redaction
    /\ UNCHANGED wireVars
    /\ UNCHANGED fifoVars

\* the caller calls put(item) on the started sink s, before it calls stop()
Owner_put(s) ==
    /\ OwnerFree
    /\ tpc[s] # "init"
    /\ stopPc[s] = "idle"
    /\ \E item \in SinkItems(s) : q' = put(q, s, item)
    /\ dropped' = put_drops(dropped, q, s)
    /\ UNCHANGED fifoVars
    /\ UNCHANGED <<stopEv, tpc, held, stopPc>>
    /\ UNCHANGED <<sessVars, recVars>>
    /\ UNCHANGED reconVars
    /\ UNCHANGED last_call
    /\ UNCHANGED logVars
    /\ UNCHANGED redaction
    /\ UNCHANGED wireVars

\* the caller calls stop() on the started sink s
Owner_stop(s) ==
    /\ OwnerFree
    /\ tpc[s] # "init"
    /\ stopPc[s] = "idle"
    /\ stopPc' = [stopPc EXCEPT ![s] = "set"]
    /\ UNCHANGED <<q, stopEv, tpc, held, dropped>>
    /\ UNCHANGED <<sessVars, recVars>>
    /\ UNCHANGED reconVars
    /\ UNCHANGED last_call
    /\ UNCHANGED logVars
    /\ UNCHANGED redaction
    /\ UNCHANGED wireVars
    /\ UNCHANGED fifoVars

Owner ==
    \/ \E s \in Sinks : Owner_start(s)
    \/ \E s \in Sinks : Owner_put(s)
    \/ \E s \in Sinks : Owner_stop(s)

SinkInit == Init /\ debug = FALSE

SinkNext == Owner \/ Stopping \/ Consumer

SinkSpec == SinkInit /\ [][SinkNext]_vars

\* the threads are scheduled fairly: a consumer thread that can take its next
\* step takes it, and a caller that has entered stop() sets the event
SinkFairness ==
    /\ \A s \in Sinks : WF_vars(run_check(s)) /\ WF_vars(run_get(s)) /\ WF_vars(stop_set(s))
    /\ WF_vars(LogPump_emit)
    /\ WF_vars(JsonlWriter_emit)

SinkFairSpec == SinkSpec /\ SinkFairness

\* ---- the structured sink with the history of its input and of its file:
\* a caller that calls start(), put() up to MaxPuts queued items and stop(),
\* against the consumer thread
\* JsonlWriter.put(item), with the item recorded when the queue takes it
JsonlWriter_put ==
    /\ OwnerFree
    /\ tpc["jsonl"] # "init"
    /\ stopPc["jsonl"] = "idle"
    /\ Len(putLog) < MaxPuts
    /\ \E item \in SinkItems("jsonl") :
         /\ q' = put(q, "jsonl", item)
         /\ putLog' = put_log(putLog, q, "jsonl", item)
    /\ dropped' = put_drops(dropped, q, "jsonl")
    /\ UNCHANGED written
    /\ UNCHANGED <<stopEv, tpc, held, stopPc>>
    /\ UNCHANGED <<sessVars, recVars>>
    /\ UNCHANGED reconVars
    /\ UNCHANGED last_call
    /\ UNCHANGED logVars
    /\ UNCHANGED redaction
    /\ UNCHANGED wireVars

\* JsonlWriter._run: json.dumps, f.write, f.flush, os.fsync inside
\* `try: ... except Exception: pass`, with the line recorded when it is written
JsonlWriter_write ==
    /\ tpc["jsonl"] = "emit"
    /\ \E ok \in BOOLEAN :
        /\ tpc' = [tpc EXCEPT !["jsonl"] = "check"]
        /\ written' = IF ok THEN Append(written, held["jsonl"]) ELSE written
    /\ held' = [held EXCEPT !["jsonl"] = NoItem]
    /\ UNCHANGED putLog
    /\ UNCHANGED <<q, stopEv, stopPc, dropped>>
    /\ UNCHANGED <<sessVars, recVars>>
    /\ UNCHANGED reconVars
    /\ UNCHANGED last_call
    /\ UNCHANGED logVars
    /\ UNCHANGED redaction
    /\ UNCHANGED wireVars

FifoNext ==
    \/ Owner_start("jsonl")
    \/ JsonlWriter_put
    \/ Owner_stop("jsonl")
    \/ stop_set("jsonl")
    \/ stop_sentinel("jsonl")
    \/ stop_join("jsonl")
    \/ run_check("jsonl")
    \/ run_get("jsonl")
    \/ JsonlWriter_write

FifoSpec == SinkInit /\ [][FifoNext]_vars

\* ---- _on_console applied to every shape of notification, in a session
\* that has reached its event loop with the recorder running
ConsoleInit ==
    /\ q = [s \in Sinks |-> <<>>]
    /\ stopEv = [s \in Sinks |-> FALSE]
    /\ tpc = [s \in Sinks |-> "check"]
    /\ held = [s \in Sinks |-> NoItem]
    /\ stopPc = [s \in Sinks |-> "idle"]
    /\ dropped = {}
    /\ spc = "loop"
    /\ debug \in BOOLEAN
    /\ captured = FALSE
    /\ err = FALSE
    /\ statusPut = {"RECORDER_STARTED"}
    /\ shutdownLog = <<>>
    /\ screenRec = TRUE
    /\ system \in {"Windows", "Darwin"}
    /\ proc = "running"
    /\ fp = "open"
    /\ rpc = "idle"
    /\ startFailed = FALSE
    /\ qWritten = FALSE
    /\ timedOut = FALSE
    /\ forced = {}
    /\ artifact = "unchecked"
    /\ ReconIdle
    /\ last_call = NoCall
    /\ encLog = <<>>
    /\ pybuf = <<"ts">>
    /\ redaction = NoRedaction
    /\ MainPageWired
    /\ putLog = <<>>
    /\ written = <<>>

ConsoleNext == \E msg \in AllRawMessages : on_console(msg)

ConsoleSpec == ConsoleInit /\ [][ConsoleNext]_vars

\* ---- the discovery of pages and the dispatch of their notifications
\* _emit_event called k times for evt, on st = the queues and the sinks that
\* have dropped an item
RECURSIVE emit_times(_, _, _)
emit_times(st, k, evt) ==
    IF k = 0 THEN st
    ELSE emit_times(
           [q |-> put(put(st.q, "jsonl", evt), "pump", Line("BROWSER_LOG", evt)),
            dropped |-> put_drops(put_drops(st.dropped, st.q, "jsonl"), st.q, "pump")],
           k - 1, evt)

\* a page opens a popup: the browser creates the page pg
Page_open(pg) ==
    /\ spc \in {"goto", "loop"}
    /\ stage[pg] = "unopened"
    /\ opener(pg) # "none"
    /\ stage[opener(pg)] = "wired"
    /\ stage' = [stage EXCEPT ![pg] = "opened"]
    /\ UNCHANGED <<page_ids, console_subs, popup_subs, emitted>>
    /\ UNCHANGED <<sinkVars, sessVars, recVars, reconVars>>
    /\ UNCHANGED last_call
    /\ UNCHANGED logVars
    /\ UNCHANGED redaction
    /\ UNCHANGED fifoVars

\* the context announces the new page: `context.on("page", lambda pg:
\* self._wire(pg))`
Context_page(pg) ==
    /\ spc \in {"goto", "loop"}
    /\ stage[pg] = "opened"
    /\ \E fresh \in Pids : wired(pg, fresh, 1)
    /\ stage' = [stage EXCEPT ![pg] = "paged"]
    /\ UNCHANGED emitted
    /\ UNCHANGED <<sinkVars, sessVars, recVars, reconVars>>
    /\ UNCHANGED last_call
    /\ UNCHANGED logVars
    /\ UNCHANGED redaction
    /\ UNCHANGED fifoVars

\* the opener announces its popup, unless the opener is closed by then: each
\* `page.on("popup", _on_popup)` of the opener runs `self._wire(p)`
Opener_popup(pg) ==
    /\ spc \in {"goto", "loop"}
    /\ stage[pg] = "paged"
    /\ \E closed \in BOOLEAN :
         IF closed
         THEN UNCHANGED <<page_ids, console_subs, popup_subs>>
         ELSE \E fresh \in Pids : wired(pg, fresh, popup_subs[opener(pg)])
    /\ stage' = [stage EXCEPT ![pg] = "wired"]
    /\ UNCHANGED emitted
    /\ UNCHANGED <<sinkVars, sessVars, recVars, reconVars>>
    /\ UNCHANGED last_call
    /\ UNCHANGED logVars
    /\ UNCHANGED redaction
    /\ UNCHANGED fifoVars

\* the page pg logs an accepted record: every _on_console subscribed to the
\* page runs and calls self._emit_event(pid, obj) with the pid of its closure
Console_event(pg, msg) ==
    /\ spc \in {"goto", "loop"}
    /\ stage[pg] # "unopened"
    /\ accepted(msg)
    /\ emitted' = [page |-> pg, pids |-> console_subs[pg]]
    /\ q' = emit_times([q |-> q, dropped |-> dropped],
                       Len(console_subs[pg]), emit_evt(msg)).q
    /\ dropped' = emit_times([q |-> q, dropped |-> dropped],
                             Len(console_subs[pg]), emit_evt(msg)).dropped
    /\ captured' = (captured \/ console_subs[pg] # <<>>)
    /\ UNCHANGED <<page_ids, console_subs, popup_subs, stage>>
    /\ UNCHANGED <<stopEv, tpc, held, stopPc>>
    /\ UNCHANGED <<spc, debug, err, statusPut, shutdownLog>>
    /\ UNCHANGED <<recVars, reconVars>>
    /\ UNCHANGED last_call
    /\ UNCHANGED logVars
    /\ UNCHANGED redaction
    /\ UNCHANGED fifoVars

WireNext ==
    \/ \E pg \in Pages : Page_open(pg)
    \/ \E pg \in Pages : Context_page(pg)
    \/ \E pg \in Pages : Opener_popup(pg)
    \/ \E pg \in Pages, msg \in RawMessages : Console_event(pg, msg)

WireSpec == ConsoleInit /\ [][WireNext]_vars

\* ---- the redaction of _on_console applied to every type and value in the
\* bounds, in a session that has reached its event loop
RedactNext == \E type \in ValueTypes, v \in Values : on_console_value(type, v)

RedactSpec == ConsoleInit /\ [][RedactNext]_vars

\* ---- one run of parser_mac.main over the event log of a capture session,
\* for every encoder log, event log and choice of parameters in the bounds
ReconInit ==
    /\ q = [s \in Sinks |-> <<>>]
    /\ stopEv = [s \in Sinks |-> TRUE]
    /\ tpc = [s \in Sinks |-> "done"]
    /\ held = [s \in Sinks |-> NoItem]
    /\ stopPc = [s \in Sinks |-> "returned"]
    /\ dropped = {}
    /\ spc = "done"
    /\ debug = FALSE
    /\ captured = TRUE
    /\ err = FALSE
    /\ statusPut = {"RECORDER_STARTED", "RECORDER_SAVED"}
    /\ shutdownLog = <<"recorder", "pump", "jsonl">>
    /\ screenRec = TRUE
    /\ system = "Darwin"
    /\ proc = "exited"
    /\ fp = "closed"
    /\ rpc = "returned"
    /\ startFailed = FALSE
    /\ qWritten = TRUE
    /\ timedOut = FALSE
    /\ forced = {}
    /\ artifact = "ok"
    /\ mpc = "files"
    /\ markers \in SeqsUpTo(MarkerValues, MaxMarkers)
    /\ prefer \in {"first", "last"}
    /\ wall_now = Zero
    /\ host_now = Zero
    /\ evLog \in SeqsUpTo(LogLines, MaxEvents)
    /\ idx = 0
    /\ video_start_epoch = Zero
    /\ ts = NoneTs
    /\ counter = 1
    /\ last_rel = NegInf
    /\ out_exists \in BOOLEAN
    /\ outLog = IF out_exists THEN <<StaleRecord>> ELSE <<>>
    /\ include_types \in IncludeChoices
    /\ offset_ms \in OffsetMsChoices
    /\ min_gap_ms \in MinGapMsChoices
    /\ host_start = NoneTs
    /\ out_jsonl \in OutJsonlChoices
    /\ failed = {}
    /\ frames = {}
    /\ last_call = NoCall
    /\ encLog = <<"ffmpeg", "ts">>
    /\ pybuf = <<>>
    /\ redaction = NoRedaction
    /\ MainPageWired
    /\ putLog = <<>>
    /\ written = <<>>

ReconNext ==
    \/ main_files
    \/ main_anchor
    \/ main_open
    \/ main_event
    \/ main_done

ReconSpec == ReconInit /\ [][ReconNext]_vars

\* ---------------------------------------------------------------- claims
\* the queue of sink s holds only sentinels
OnlySentinels(s) == \A i \in 1..Len(q[s]) : q[s][i] = NoneItem

\* C1: the queue of a sink never holds more than its capacity
C1_Bounded == \A s \in Sinks : Len(q[s]) <= QueueMaxsize

\* C1: put() returns whatever the queue holds: a caller that may call put()
\* can always take that step
C1_NonBlocking ==
    \A s \in Sinks :
        (OwnerFree /\ tpc[s] # "init" /\ stopPc[s] = "idle") => ENABLED Owner_put(s)

\* C1: a step never changes a full queue other than by the consumer taking
\* its head, and a step in which put() drops an item is taken on a full queue
\* and leaves the queue as it was
C1_PutStep ==
    \A s \in Sinks :
        /\ Len(q[s]) = QueueMaxsize => (q'[s] = q[s] \/ q'[s] = Tail(q[s]))
        /\ (s \in dropped' /\ s \notin dropped) =>
               (Len(q[s]) = QueueMaxsize /\ q'[s] = q[s])

\* C1: for both sinks, under any interleaving of put() with the consumer,
\* put() never blocks, the queue never exceeds its capacity, and a put() on a
\* full queue drops the new item and leaves the queued items unchanged
C1_PutNeverBlocksNorOverfills ==
    []C1_Bounded /\ []C1_NonBlocking /\ [][C1_PutStep]_vars

\* C1 witness: both sinks have dropped an item on a full queue while their
\* consumers were running
C1_Witness ==
    /\ dropped = Sinks
    /\ \A s \in Sinks : Len(q[s]) = QueueMaxsize /\ tpc[s] \in {"check", "get", "emit"}

\* C2 (as claimed): when the consumer thread of a sink has left its loop,
\* every item that put() accepted has been taken from the queue and emitted
C2_FlushedOnShutdown ==
    \A s \in Sinks : tpc[s] = "done" => OnlySentinels(s)

\* C3 (as claimed): an error while emitting an item never terminates the
\* consumer thread of either sink
C3_ErrorNeverKillsConsumer ==
    \A s \in Sinks : tpc[s] # "crashed"

\* C4: once stop() has been called on a started sink, its consumer thread
\* eventually exits, whatever the queue held
C4_StopEndsConsumer ==
    \A s \in Sinks : (stopPc[s] # "idle") ~> (tpc[s] \in {"done", "crashed"})

\* C4 witness: stop() found the queue full, the sentinel was not enqueued,
\* and the consumer thread has exited
C4_Witness ==
    \E s \in Sinks :
        /\ stopPc[s] \in {"join", "returned"}
        /\ Len(q[s]) = QueueMaxsize
        /\ \A i \in 1..Len(q[s]) : q[s][i] # NoneItem
        /\ tpc[s] = "done"

\* s is a prefix of t
IsPrefix(s, t) == Len(s) <= Len(t) /\ \A i \in 1..Len(s) : s[i] = t[i]

\* the record r handed to the structured sink has a numeric ts in epoch
\* seconds (not above the 1e10 that marks milliseconds) and an allowed type
WellFormedEvent(r) ==
    /\ r.ts.kind = "num"
    /\ ~NumLess(MsEpochThreshold, r.ts.v)
    /\ r.type \in ActionTypes

\* C5 (as claimed): every record handed to the structured sink has a numeric
\* ts in epoch seconds and a type of the allow-set
C5_EventsWellFormed ==
    \A i \in 1..Len(q["jsonl"]) : WellFormedEvent(q["jsonl"][i])

\* the conversion C6 names: a value greater than 1e10 divided by 1000, any
\* other value unchanged
ToEpochSeconds(n) ==
    IF NumLess(MsEpochThreshold, n) THEN DivThousandRound6(n) ELSE n

\* C6: the timestamp that reconciliation compares with the anchor is the
\* record's timestamp converted to epoch seconds: divided by 1000 when it is
\* greater than 1e10, unchanged otherwise
C6_NormalizedBeforeCompare ==
    (mpc \in {"loop", "done"} /\ idx > 0 /\ ts.kind = "float") =>
        LET ev == read_jsonl(evLog)[idx]
        IN  ts.v = ToEpochSeconds(ev.ts.v)

\* C7: the finally block calls recorder stop, console-sink stop and
\* structured-sink stop in that order; whenever start() has ended, however the
\* session ended and whatever recorder stop did, both sinks have been stopped;
\* and the session can always go on until then
C7_ShutdownOrder ==
    /\ \/ IsPrefix(shutdownLog, <<"recorder", "pump", "jsonl">>)
       \/ IsPrefix(shutdownLog, <<"pump", "jsonl">>)
    /\ (screenRec /\ shutdownLog # <<>>) => shutdownLog[1] = "recorder"
    /\ spc = "done" =>
          /\ Len(shutdownLog) >= 2
          /\ shutdownLog[Len(shutdownLog) - 1] = "pump"
          /\ shutdownLog[Len(shutdownLog)] = "jsonl"
          /\ \A s \in Sinks : stopEv[s] /\ stopPc[s] = "returned"
    /\ spc # "done" => ENABLED Next

\* C7 witness: the session ended by an exception, recorder stop raised, and
\* both sinks were stopped after it
C7_Witness ==
    /\ spc = "done"
    /\ err
    /\ rpc = "raised"
    /\ shutdownLog = <<"recorder", "pump", "jsonl">>
    /\ \A s \in Sinks : stopEv[s]

C8_StartFailureStep ==
    (~startFailed /\ startFailed') =>
        /\ spc' = "loop"
        /\ "RECORDER_START_FAILED" \in statusPut'
        /\ "RECORDER_START_FAILED" \notin statusPut
        /\ err' = err

C9_GracefulThenForced ==
    /\ forced # {} => (timedOut /\ qWritten)
    /\ rpc \in {"returned", "raised"} => proc # "running"

\* C10 (as claimed): when stop() returns or raises the log handle is closed,
\* and stop() returns exactly when the artifact exists and is not empty
C10_LogClosedThenVerified ==
    rpc \in {"returned", "raised"} =>
        /\ fp # "open"
        /\ (rpc = "returned") <=> (artifact = "ok")
        /\ (rpc = "raised") <=> (artifact \in {"missing", "empty"})


\* main() has gone past the selection of the anchor marker
PastAnchor == mpc \notin {"idle", "files", "anchor", "FileNotFoundError"}

\* C11: prefer = "first" selects the value of the first start marker of the
\* encoder log and prefer = "last" the value of the last one; a log without a
\* marker yields None, and the run fails with the RuntimeError
C11_AnchorMarkerSelection ==
    PastAnchor =>
        /\ markers = <<>> =>
              host_start = NoneTs /\ mpc = "RuntimeError: no start"
        /\ (markers # <<>> /\ prefer = "first") =>
              host_start = Float(markers[1]) /\ mpc # "RuntimeError: no start"
        /\ (markers # <<>> /\ prefer = "last") =>
              host_start = Float(markers[Len(markers)])
                  /\ mpc # "RuntimeError: no start"

\* C11 witness: two markers of different values, prefer = "last", and the run
\* has entered its loop with the value of the second one
C11_Witness ==
    /\ mpc = "loop"
    /\ Len(markers) = 2
    /\ markers[1] # markers[2]
    /\ prefer = "last"
    /\ host_start = Float(markers[2])

\* main() holds an anchor
HasAnchor == mpc \in {"which", "loop", "done", "RuntimeError: no ffmpeg"}

\* C12: the anchor is wall_now - host_now + marker_value for the readings
\* sampled when it was computed
C12_AnchorValue ==
    HasAnchor =>
        NumAdd(video_start_epoch, host_now) = NumAdd(wall_now, host_start.v)

\* C12: once computed, the anchor and the readings it was computed from do not
\* change, and a pass of the loop that retains a record has compared the
\* record's ts with that anchor and measured its relative time from it
C12_AnchorStep ==
    HasAnchor =>
        /\ UNCHANGED <<video_start_epoch, wall_now, host_now, host_start>>
        /\ (mpc = "loop" /\ outLog' # outLog) =>
              /\ ~NumLess(ts'.v, video_start_epoch)
              /\ last_rel' =
                     Float(NumAdd(NumSub(ts'.v, video_start_epoch), offset_s))

\* C12: the anchor equals wall_now - host_now + marker_value, is computed once
\* in a run, and the same value is used for every event of the run
C12_AnchorComputedOnce == []C12_AnchorValue /\ [][C12_AnchorStep]_vars

\* C12 witness: a run has ended with two records retained against its anchor
C12_Witness ==
    /\ mpc = "done"
    /\ out_jsonl = "default"
    /\ Len(outLog) = 2
    /\ host_now # Num(0, 6000, 0)

\* C13: a run over an encoder log without a start marker never opens the
\* output log nor extracts a frame: it ends before the anchor or with the
\* RuntimeError of the missing marker
C13_AbortsBeforeOutput ==
    markers = <<>> =>
        /\ mpc \in {"files", "anchor", "FileNotFoundError", "RuntimeError: no start"}
        /\ frames = {}

\* C13: no step of such a run creates, truncates or writes the output log,
\* whichever file its path names, or writes a frame
C13_NoOutputStep ==
    markers = <<>> => UNCHANGED <<outLog, out_exists, evLog, frames>>

\* C13: when the encoder log has no start marker the run aborts with no
\* partial output: no frame is extracted and the output log is neither
\* created nor truncated nor written
C13_NoPartialOutput == []C13_AbortsBeforeOutput /\ [][C13_NoOutputStep]_vars

\* C13 witness: the run has failed on the missing marker, with events in the
\* input log and an output log of an earlier run still in place
C13_Witness ==
    /\ mpc = "RuntimeError: no start"
    /\ markers = <<>>
    /\ Len(read_jsonl(evLog)) = 2
    /\ out_exists
    /\ outLog = <<StaleRecord>>

\* a is a subsequence of b: the elements of a, in their order, at increasing
\* positions of b
RECURSIVE IsSubseq(_, _)
IsSubseq(a, b) ==
    IF a = <<>> THEN TRUE
    ELSE IF b = <<>> THEN FALSE
    ELSE IF Head(a) = Head(b) THEN IsSubseq(Tail(a), Tail(b))
    ELSE IsSubseq(a, Tail(b))

\* the event records of the output log, without their frame_path
OutEvents == [i \in 1..Len(outLog) |-> outLog[i].ev]

\* C14: the records of the output log written by a run are, in the same
\* order, records of the input log at increasing positions
C14_OrderPreserved ==
    (mpc \in {"loop", "done"} /\ out_jsonl = "default") =>
        IsSubseq(OutEvents, evLog)

\* C14 witness: a run has retained two different records of its input log
C14_Witness ==
    /\ mpc = "done"
    /\ out_jsonl = "default"
    /\ Len(outLog) = 2
    /\ outLog[1].ev # outLog[2].ev

\* the relative time of the i-th record of the output log
OutRel(i) == rel_time(sanitize_ts(outLog[i].ev.ts).v)

\* C15: consecutive records of the output log are at least min_gap apart in
\* relative time, whatever the order of the timestamps of the input log and
\* whichever extractions failed
C15_DedupInvariant ==
    (mpc \in {"loop", "done"} /\ out_jsonl = "default") =>
        \A i \in 1..(Len(outLog) - 1) :
            ~NumLess(NumSub(OutRel(i + 1), OutRel(i)), MsToSeconds(min_gap_ms))

\* C15 witness: with a minimum gap of two seconds, a run has retained two
\* records
C15_Witness ==
    /\ mpc = "done"
    /\ out_jsonl = "default"
    /\ min_gap_ms = 2000
    /\ Len(outLog) = 2

\* C16: a pass of the loop in which extract_frame raises writes nothing to
\* the output log, leaves the sequence counter and the last retained relative
\* time as they were, and moves on to the next record
C16_FailureStep ==
    failed' # failed =>
        /\ outLog' = outLog
        /\ frames' = frames
        /\ counter' = counter
        /\ last_rel' = last_rel
        /\ idx' = idx + 1
        /\ mpc' = "loop"

\* C16: while records remain, the loop can take its next pass
C16_Continues ==
    (mpc = "loop" /\ idx < Len(read_jsonl(evLog))) => ENABLED main_event

\* C16: a frame-extraction failure skips only its event: the batch continues,
\* nothing is written for the failed event, and the counter and the last
\* retained relative time are unchanged by the failure
C16_FailureSkipsOneEvent == [][C16_FailureStep]_vars /\ []C16_Continues

\* C16 witness: the extraction for the first record failed and the second
\* record was retained under the first value of the counter
C16_Witness ==
    /\ mpc = "done"
    /\ failed = {1}
    /\ Len(outLog) = 1
    /\ outLog[1].frame_path.counter = 1
    /\ outLog[1].ev = read_jsonl(evLog)[2]

\* C17 (as claimed): every record of the output log is a record of the input
\* log, its fields unchanged, with a frame_path added
C17_OutputKeepsFields ==
    (mpc \in {"loop", "done"} /\ out_jsonl = "default") =>
        \A i \in 1..Len(outLog) :
            \E j \in 1..Len(evLog) : outLog[i].ev = evLog[j]

\* C17 (as claimed): no step of a run changes the content of the input event
\* log
C17_InputLogStep == evLog' = evLog

\* C17 (as claimed): reconciliation does not mutate the original records: the
\* output records are the input records plus frame_path, and the input event
\* log has the same content after the run as before it, for any output path
C17_InputNotMutated == []C17_OutputKeepsFields /\ [][C17_InputLogStep]_vars

\* the output log of a run over the records recs from position i on, for the
\* anchor `anchor`, with extract_frame failing at the positions of `fails`;
\* n is the sequence counter, last the last retained relative time
RECURSIVE RunFrom(_, _, _, _, _, _)
RunFrom(anchor, recs, fails, i, n, last) ==
    IF i > Len(recs) THEN <<>>
    ELSE LET ev == recs[i]
             t == sanitize_ts(ev.ts)
         IN  IF skipped_with(anchor, last, ev, t) \/ i \in fails
             THEN RunFrom(anchor, recs, fails, i + 1, n, last)
             ELSE <<augmented_with(n, ev, t.v)>> \o
                    RunFrom(anchor, recs, fails, i + 1, n + 1,
                            Float(rel_time_from(anchor, t.v)))

\* C18 (as claimed): the output log of a finished run, frame names included,
\* is the one that a run over the same event log, encoder log and parameters
\* with the same extraction outcomes produces for any wall-clock and
\* host-clock readings
C18_Deterministic ==
    (mpc = "done" /\ out_jsonl = "default") =>
        \A w \in WallSamples, h \in HostSamples :
            outLog = RunFrom(host_seconds_to_epoch(w, h, host_start.v),
                             read_jsonl(evLog), failed, 1, 1, NegInf)

\* a finished run has written the output log computed for its own readings
C18_SameReadings ==
    (mpc = "done" /\ out_jsonl = "default") =>
        outLog = RunFrom(video_start_epoch, read_jsonl(evLog), failed, 1, 1, NegInf)
\* C19 (claim): a call of _on_console for a notification that is not accepted
\* makes no put to the structured sink; it puts exactly one tagged line to the
\* console sink when config.debug is set and nothing when it is not.
C19_NoJsonlForRejected ==
    (last_call # NoCall /\ ~last_call.accepted) => last_call.jsonl = 0

C19_RejectedDiagnostics ==
    (last_call # NoCall /\ ~last_call.accepted) =>
        /\ last_call.jsonl = 0
        /\ Len(last_call.pump) = (IF debug THEN 1 ELSE 0)

\* with config.debug set, a notification carrying the pipeline marker and a
\* "type" that is a JSON array has been handled and nothing was put anywhere
C19_Counterexample_Reached ==
    /\ debug
    /\ last_call = Call(FALSE, 0, <<>>)

\* what does hold of C19: without config.debug a rejected notification is put
\* to neither sink
C19_QuietWithoutDebug ==
    (last_call # NoCall /\ ~last_call.accepted /\ ~debug) =>
        (last_call.jsonl = 0 /\ last_call.pump = <<>>)

\* C20 (claim): the encoder log begins with the host-clock timestamp: in the
\* content of the file the timestamp start() wrote precedes everything the
\* ffmpeg process wrote to its error stream.  Stated of the finished file,
\* after stop() has closed it.
C20_TimestampFirst ==
    fp = "closed" =>
        \A i \in DOMAIN encLog :
            encLog[i] = "ffmpeg" => (\E j \in 1..(i - 1) : encLog[j] = "ts")

\* what does hold: the timestamp reaches the file once, when stop() closes it
C20_TimestampAtClose ==
    /\ Cardinality({ i \in DOMAIN encLog : encLog[i] = "ts" }) <= 1
    /\ (fp = "open" /\ proc # "none") => (pybuf = <<"ts">> /\ encLog \in Seq({"ffmpeg"}))

\* the record of the input log the loop of main() looked at last
LastEvent == read_jsonl(evLog)[idx]

\* C21: every record of the output log written by a run has a ts that is not
\* before the anchor, a relative time (ts - anchor) + offset_s that is not
\* negative and, when an include-list is given, a type of that list
C21_OutputFiltered ==
    (mpc \in {"loop", "done"} /\ out_jsonl = "default") =>
        \A i \in DOMAIN outLog :
            /\ sanitize_ts(outLog[i].ev.ts).kind = "float"
            /\ ~NumLess(sanitize_ts(outLog[i].ev.ts).v, video_start_epoch)
            /\ ~NumLess(OutRel(i), Zero)
            /\ include_types.given => outLog[i].ev.type \in include_types.types

\* C21: a pass of the loop over a record whose ts is before the anchor writes
\* nothing, whatever the offset
C21_BeforeAnchorStep ==
    (main_event /\ ts'.kind = "float" /\ NumLess(ts'.v, video_start_epoch)) =>
        UNCHANGED <<outLog, counter, last_rel, frames>>
C21_BeforeAnchorDiscarded == [][C21_BeforeAnchorStep]_vars

C21_Filtering == []C21_OutputFiltered /\ C21_BeforeAnchorDiscarded

\* C21 witness: with an offset of +1 s the loop has passed over a record whose
\* ts is before the anchor and whose relative time would not be negative, has
\* written nothing for it, and has retained another record
C21_Witness ==
    /\ mpc = "loop"
    /\ out_jsonl = "default"
    /\ offset_ms = 1000
    /\ idx = 2
    /\ ts.kind = "float"
    /\ NumLess(ts.v, video_start_epoch)
    /\ ~NumLess(rel_time(ts.v), Zero)
    /\ Len(outLog) = 1
    /\ outLog[1].ev = read_jsonl(evLog)[1]
    /\ outLog[1].ev # LastEvent

\* C22: in the output log written by a run the i-th record carries the counter
\* value i, the counter is one more than the number of records written, and
\* the frame_path values are pairwise distinct
C22_CounterInvariant ==
    (mpc \in {"loop", "done"} /\ out_jsonl = "default") =>
        /\ counter = Len(outLog) + 1
        /\ \A i \in DOMAIN outLog : outLog[i].frame_path.counter = i
        /\ \A i, j \in DOMAIN outLog :
              i # j => outLog[i].frame_path # outLog[j].frame_path

\* C22: the counter starts at 1 when the output is opened and a pass of the
\* loop adds exactly 1 to it when it retains a record and nothing otherwise
C22_CounterStep ==
    /\ (main_open /\ mpc' = "loop") => counter' = 1
    /\ main_event =>
          \/ counter' = counter + 1 /\ Len(outLog') = Len(outLog) + 1
          \/ UNCHANGED <<counter, outLog>>
C22_CounterSteps == [][C22_CounterStep]_vars

C22_NoCollision == []C22_CounterInvariant /\ C22_CounterSteps

\* C22 witness: a run has retained two records with the same type and the
\* same ts; only the counter tells their frame names apart
C22_Witness ==
    /\ mpc = "done"
    /\ out_jsonl = "default"
    /\ Len(outLog) = 2
    /\ outLog[1].ev = outLog[2].ev
    /\ outLog[1].frame_path.ms = outLog[2].frame_path.ms

\* C23: the value forwarded for an accepted "type" or "type_commit" event with
\* a string value has at most 120 characters: a value of at most 120
\* characters is forwarded as it is, a longer one as its first 117 characters
\* and the ellipsis; for any other type, and for a value that is not a string,
\* the value is forwarded as it is
C23_ValueRedacted ==
    redaction # NoRedaction =>
        IF redaction.type \in {"type", "type_commit"} /\ redaction.value.kind = "str"
        THEN /\ redaction.out.kind = "str"
             /\ Len(redaction.out.chars) <= MaxValueLen
             /\ Len(redaction.value.chars) <= MaxValueLen =>
                   redaction.out = redaction.value
             /\ Len(redaction.value.chars) > MaxValueLen =>
                   /\ Len(redaction.out.chars) = KeptLen + 1
                   /\ \A i \in 1..KeptLen :
                         redaction.out.chars[i] = redaction.value.chars[i]
                   /\ redaction.out.chars[KeptLen + 1] = Ellipsis
        ELSE redaction.out = redaction.value

\* C23 witness: a "type" event with a value of 121 characters has been
\* forwarded with 118 characters
C23_Witness ==
    /\ redaction.type = "type"
    /\ redaction.value.kind = "str"
    /\ Len(redaction.value.chars) = MaxValueLen + 1
    /\ Len(redaction.out.chars) = KeptLen + 1
    /\ redaction.out.chars[KeptLen] = "a"
    /\ redaction.out.chars[KeptLen + 1] = Ellipsis

\* C24: an entry of the page-identifier mapping, once made, is never changed
\* or removed by a later discovery, popup or repeated wiring
C24_EntryStep ==
    \A pg \in Pages : page_ids[pg] # NoPid => page_ids'[pg] = page_ids[pg]
C24_AppendOnly == [][C24_EntryStep]_vars

\* C24: every subscription of a page holds the page's identifier, and every
\* event emitted for a page carries it
C24_SamePid ==
    /\ \A pg \in Pages : \A i \in DOMAIN console_subs[pg] :
          console_subs[pg][i] = page_ids[pg]
    /\ \A i \in DOMAIN emitted.pids : emitted.pids[i] = page_ids[emitted.page]

C24_StableMapping == C24_AppendOnly /\ []C24_SamePid

\* C24 witness: the popup has been wired a second time, and an event of the
\* popup has been emitted after that
C24_Witness ==
    /\ Len(console_subs["popup"]) = 2
    /\ page_ids["popup"] # NoPid
    /\ emitted.page = "popup"
    /\ emitted.pids # <<>>

\* C25 (claim): each page is subscribed at most once
C25_AtMostOneSubscription ==
    \A pg \in Pages : Len(console_subs[pg]) <= 1

\* C25 (claim): an accepted notification of a page whose discovery events
\* have been dispatched gives exactly one put to the structured sink and one
\* to the console sink, also for a popup announced by the context and by its
\* opener
C25_OnePutPerNotification ==
    (emitted # NoEmit /\ stage[emitted.page] = "wired") =>
        Len(emitted.pids) = 1

\* what does hold of C25: the first page, which only the context announces,
\* is subscribed once and its accepted notifications are emitted once
C25_MainPageOnce ==
    /\ Len(console_subs["main"]) = 1
    /\ emitted.page = "main" => Len(emitted.pids) = 1

\* the items of the structured sink that are queued or held by the consumer
\* thread, oldest first
Pending ==
    (IF tpc["jsonl"] = "emit" THEN <<held["jsonl"]>> ELSE <<>>)
        \o SelectSeq(q["jsonl"], LAMBDA item : item # NoneItem)

\* C26: the lines of the file are, in order and each at most once, items that
\* put() placed on the queue: the items still queued or held are the newest
\* items put, and the lines written are a subsequence of the items before them
C26_WrittenFromPut ==
    /\ Len(Pending) <= Len(putLog)
    /\ Pending = SubSeq(putLog, Len(putLog) - Len(Pending) + 1, Len(putLog))
    /\ IsSubseq(written, SubSeq(putLog, 1, Len(putLog) - Len(Pending)))

\* C26: a step of the consumer thread writes at most the item it holds, at the
\* end of the file, and a put() that finds the queue full changes neither the
\* queue nor the file
C26_Step ==
    /\ written' # written =>
          tpc["jsonl"] = "emit" /\ written' = Append(written, held["jsonl"])
    /\ (~put_accepts(q["jsonl"]) /\ putLog' # putLog) => FALSE
C26_Steps == [][C26_Step]_vars

C26_FifoNoDuplicates == []C26_WrittenFromPut /\ C26_Steps

\* C26 witness: two different items have been written in the order they were
\* put, after a put() that found the queue full had dropped an item
C26_Witness ==
    /\ "jsonl" \in dropped
    /\ Len(putLog) = 3
    /\ Len(written) = 2
    /\ written[1] # written[2]
    /\ written[1] = putLog[1]

====
